---- MODULE Spec2Model ----
(***************************************************************************)
(* Model of Matching_app.py: a Streamlit script that loads an English and  *)
(* a Korean subtitle track, shifts the Korean track, pairs segments by     *)
(* hand (index lists) or automatically (pandas merge_asof, nearest start   *)
(* time within one second), and writes the result to the fixed path        *)
(* matched_subtitles.csv in the server's working directory.                *)
(*                                                                         *)
(* Streamlit reruns the whole script, top to bottom, on every widget       *)
(* interaction of a session: every action below is one such run.  Times    *)
(* are integers, in milliseconds.                                          *)
(***************************************************************************)
EXTENDS Integers, Sequences, FiniteSets, TLC

VARIABLES
    users,        \* the browser sessions connected to the server
    engFiles,     \* the files the users may put into the English uploader
    korFiles,     \* the files the users may put into the Korean uploader
    idxInputs,    \* the texts the users may type into the index inputs
    eng_file,     \* per session: the English uploader's file (None, Some)
    kor_file,     \* per session: the Korean uploader's file
    eng_df,       \* per session: st.session_state.eng_df
    kor_df,       \* per session: st.session_state.kor_df
    kor_shifted,  \* per session: st.session_state.kor_shifted
    matched,      \* per session: st.session_state.matched
    buttons,      \* per session: the buttons the last run rendered
    out,          \* per session: what the last run did and displayed
    actor,        \* the session whose script ran last (0: none yet)
    csv           \* the file matched_subtitles.csv (one per server)

vars == <<users, engFiles, korFiles, idxInputs, eng_file, kor_file, eng_df,
          kor_df, kor_shifted, matched, buttons, out, actor, csv>>

-----------------------------------------------------------------------------
(* Bounds of the model                                                     *)

MaxLen == 2          \* segments per generated subtitle file
MaxTick == 2         \* generated start times are 0..MaxTick half seconds
MaxShiftTicks == 1   \* shifts are -MaxShiftTicks..MaxShiftTicks half seconds
MaxIdx == 1          \* typed indices are -(MaxIdx+1)..MaxIdx

(* Program constants                                                       *)

Tolerance == 1000        \* pd.Timedelta(seconds=1)
ShiftMax == 3600000      \* number_input max_value=3600.0 (min is -3600.0)

TickMs == Tolerance \div 2
Sessions == {1, 2}

None == <<>>
Some(x) == <<x>>
NaN == "<NaN>"           \* pandas' missing value in a text column

Abs(x) == IF x < 0 THEN -x ELSE x
Min(a, b) == IF a <= b THEN a ELSE b
SeqSet(s) == {s[i] : i \in 1..Len(s)}

-----------------------------------------------------------------------------
(* parse_srt_to_df                                                         *)

\* Texts with at least one codepoint in U+AC00..U+D7A3 ("ga", "na", ... stand
\* for Hangul syllables; "A ga" is a line mixing both scripts).
HangulTexts == {"ga", "na", "da", "ra", "A ga"}

has_kor(text) == text \in HangulTexts

\* sub.text.replace('\n', ' ')
FlattenText(text) == IF text = "B\nC" THEN "B C" ELSE text

\* fmt(t): "HH:MM:SS.mmm" from the components of a pysrt time
fmt(t) ==
    [hours |-> t \div 3600000, minutes |-> (t \div 60000) % 60,
     seconds |-> (t \div 1000) % 60, milliseconds |-> t % 1000]

\* pd.to_timedelta of an "HH:MM:SS.mmm" string
to_timedelta(str) ==
    ((str.hours * 60 + str.minutes) * 60 + str.seconds) * 1000 + str.milliseconds

KeepsLang(text, lang) ==
    ~ (\/ lang = "en" /\ has_kor(text)
       \/ lang = "ko" /\ ~ has_kor(text))

RECURSIVE ParseRows(_, _)
ParseRows(subs, lang) ==
    IF subs = <<>> THEN <<>>
    ELSE LET sub == Head(subs)
             text == FlattenText(sub.text)
         IN  IF KeepsLang(text, lang)
             THEN <<[start_time |-> fmt(sub.start), end_time |-> fmt(sub.end),
                     text |-> text]>> \o ParseRows(Tail(subs), lang)
             ELSE ParseRows(Tail(subs), lang)

\* None with an error message, or a frame of formatted rows.  A file is
\* [srt |-> its name ends in .srt, parses |-> pysrt.from_string returns,
\*  subs |-> the items pysrt reads from it].
parse_srt_to_df(file, lang) ==
    IF ~ file.srt THEN [df |-> None, err |-> "validation"]
    ELSE IF ~ file.parses THEN [df |-> None, err |-> "format"]
    ELSE [df |-> Some(ParseRows(file.subs, lang)), err |-> "none"]

\* Lines 68-71: the time columns become timedeltas.
ToTimedeltas(df) ==
    [i \in 1..Len(df) |->
        [start_time |-> to_timedelta(df[i].start_time),
         end_time |-> to_timedelta(df[i].end_time),
         text |-> df[i].text]]

\* Lines 60-75.  ok: the script goes on past line 77.  A frame built from no
\* rows has no columns, so df['start_time'] raises KeyError (uncaught).
Load(ef, kf) ==
    IF ef = None \/ kf = None
    THEN [ok |-> FALSE, errs |-> {}, eng |-> <<>>, kor |-> <<>>]
    ELSE LET e == parse_srt_to_df(ef[1], "en")
             k == parse_srt_to_df(kf[1], "ko")
         IN  IF e.df = None \/ k.df = None
             THEN [ok |-> FALSE, errs |-> {e.err, k.err} \ {"none"},
                   eng |-> <<>>, kor |-> <<>>]
             ELSE IF e.df[1] = <<>> \/ k.df[1] = <<>>
             THEN [ok |-> FALSE, errs |-> {"KeyError"}, eng |-> <<>>, kor |-> <<>>]
             ELSE [ok |-> TRUE, errs |-> {},
                   eng |-> ToTimedeltas(e.df[1]), kor |-> ToTimedeltas(k.df[1])]

-----------------------------------------------------------------------------
(* Manual match, lines 98-116                                              *)

\* DataFrame.iloc[list of int]: Python positions, negative ones counted from
\* the end; any position outside -n..n-1 raises IndexError.
\* Variant: negative positions rejected
InBoundsNonNegative(n, i) == 0 <= i /\ i <= n - 1

InBounds(n, i) == -n <= i /\ i <= n - 1

Position(n, i) == IF i >= 0 THEN i + 1 ELSE n + i + 1

iloc(df, idx) ==
    IF \A j \in 1..Len(idx) : InBounds(Len(df), idx[j])
    THEN [ok |-> TRUE, rows |-> [j \in 1..Len(idx) |-> df[Position(Len(df), idx[j])]]]
    ELSE [ok |-> FALSE, rows |-> <<>>]

\* zip(sel_eng, sel_kor) and the interval of each pair
Combined(sel_eng, sel_kor) ==
    [j \in 1..Min(Len(sel_eng), Len(sel_kor)) |->
        [start_time_ENG |-> sel_eng[j].start_time, ENG_text |-> sel_eng[j].text,
         start_time_KOR |-> sel_kor[j].start_time, KOR_text |-> sel_kor[j].text,
         interval |-> sel_kor[j].start_time - sel_eng[j].start_time]]

\* An index input is [ok |-> ast.literal_eval and list() succeed, idx |-> the list].
ManualMatch(edf, kdf, eng_in, kor_in) ==
    IF ~ eng_in.ok \/ ~ kor_in.ok THEN [ok |-> FALSE, table |-> <<>>]
    ELSE LET sel_eng == iloc(edf, eng_in.idx)
             sel_kor == iloc(kdf, kor_in.idx)
         IN  IF sel_eng.ok /\ sel_kor.ok
             THEN [ok |-> TRUE, table |-> Combined(sel_eng.rows, sel_kor.rows)]
             ELSE [ok |-> FALSE, table |-> <<>>]

-----------------------------------------------------------------------------
(* Apply shift, lines 127-131                                              *)

\* Variant: the end times shifted as well
ShiftTrackBoth(kdf, shift) ==
    [i \in 1..Len(kdf) |->
        [kdf[i] EXCEPT !.start_time = @ - shift, !.end_time = @ - shift]]

\* k2 = kor_df.copy(); k2['start_time'] -= shift
ShiftTrack(kdf, shift) ==
    [i \in 1..Len(kdf) |-> [kdf[i] EXCEPT !.start_time = @ - shift]]

-----------------------------------------------------------------------------
(* Automatic matching, lines 135-176                                       *)

IsPermutation(p, n) ==
    /\ Len(p) = n
    /\ \A i \in 1..n : \E j \in 1..n : p[j] = i

\* sort_values('start_time').reset_index(drop=True): the default sort is not
\* stable, so rows of equal start time come out in any order.
SortedByStart(df) ==
    LET n == Len(df)
    IN  {[i \in 1..n |-> df[p[i]]] :
            p \in {q \in [1..n -> 1..n] :
                    /\ IsPermutation(q, n)
                    /\ \A i \in 1..(n - 1) : df[q[i]].start_time <= df[q[i + 1]].start_time}}

\* merge_asof direction='backward': the last right row whose key is <= the left
\* key, dropped when farther than the tolerance.  0 stands for no row (-1).
Backward(rv, x) ==
    LET c == {j \in 1..Len(rv) : rv[j] <= x}
        j == IF c = {} THEN 0 ELSE CHOOSE m \in c : \A o \in c : o <= m
    IN  IF j # 0 /\ x - rv[j] > Tolerance THEN 0 ELSE j

\* merge_asof direction='forward': the first right row whose key is >= the left key
Forward(rv, x) ==
    LET c == {j \in 1..Len(rv) : rv[j] >= x}
        j == IF c = {} THEN 0 ELSE CHOOSE m \in c : \A o \in c : m <= o
    IN  IF j # 0 /\ rv[j] - x > Tolerance THEN 0 ELSE j

\* Variant: direction='backward'
NearestBackwardOnly(rv, x) == Backward(rv, x)

\* Variant: the forward row on a tie
NearestForwardOnTie(rv, x) ==
    LET b == Backward(rv, x)
        f == Forward(rv, x)
    IN  IF b # 0 /\ f # 0
        THEN IF x - rv[b] < rv[f] - x THEN b ELSE f
        ELSE IF b # 0 THEN b ELSE f

\* merge_asof direction='nearest': the closer of the two, the backward one on a tie
Nearest(rv, x) ==
    LET b == Backward(rv, x)
        f == Forward(rv, x)
    IN  IF b # 0 /\ f # 0
        THEN IF x - rv[b] <= rv[f] - x THEN b ELSE f
        ELSE IF b # 0 THEN b ELSE f

\* right_indexer of pd.merge_asof(left=e2, right=k2, ...)
MergeAsof(e2, k2) ==
    LET rv == [j \in 1..Len(k2) |-> k2[j].start_time]
    IN  [i \in 1..Len(e2) |-> Nearest(rv, e2[i].start_time)]

\* matched[['Eng_text','Kor_text']]
MatchedPairs(e2, k2, ri) ==
    [i \in 1..Len(e2) |->
        [Eng_text |-> e2[i].text,
         Kor_text |-> IF ri[i] = 0 THEN NaN ELSE k2[ri[i]].text]]

\* matched['start_time_KOR'].dropna().unique()
MatchedKorTimes(k2, ri) == {k2[ri[i]].start_time : i \in {m \in DOMAIN ri : ri[m] # 0}}

RECURSIVE UnmatchedKor(_, _)
\* k2.loc[~k2['start_time_KOR'].isin(matched_kor_times), 'Kor_text']
UnmatchedKor(k2, times) ==
    IF k2 = <<>> THEN <<>>
    ELSE IF Head(k2).start_time \in times THEN UnmatchedKor(Tail(k2), times)
    ELSE <<[Eng_text |-> "", Kor_text |-> Head(k2).text]>> \o UnmatchedKor(Tail(k2), times)

\* Variant: the unmatched rows first
FinalUnmatchedFirst(e2, k2, ri) ==
    UnmatchedKor(k2, MatchedKorTimes(k2, ri)) \o MatchedPairs(e2, k2, ri)

\* pd.concat([matched_pairs, unmatched_kor_df], ignore_index=True)
Final(e2, k2, ri) ==
    MatchedPairs(e2, k2, ri) \o UnmatchedKor(k2, MatchedKorTimes(k2, ri))

\* final.to_csv(..., index=False): a header row, a missing value written empty
to_csv(final) ==
    <<<<"Eng_text", "Kor_text">>>> \o
    [i \in 1..Len(final) |->
        <<final[i].Eng_text, IF final[i].Kor_text = NaN THEN "" ELSE final[i].Kor_text>>]

-----------------------------------------------------------------------------
(* Download or delete, lines 182-199                                       *)

\* m, c: session_state.matched and the file when the run reaches line 182;
\* del: this run was started by a click on "Not good (delete file)".
\* open() of an absent file raises FileNotFoundError (uncaught): the run ends
\* at line 185, before the delete button.  download: the bytes the download
\* button is given, read from the file in this run.
Section9(m, c, del) ==
    IF m = None
    THEN [matched |-> m, csv |-> c, errs |-> {}, rendered |-> FALSE, download |-> None]
    ELSE IF c = None
    THEN [matched |-> m, csv |-> c, errs |-> {"FileNotFoundError"}, rendered |-> FALSE,
          download |-> None]
    ELSE IF del
    THEN [matched |-> None, csv |-> None, errs |-> {}, rendered |-> TRUE, download |-> c]
    ELSE [matched |-> m, csv |-> c, errs |-> {}, rendered |-> TRUE, download |-> c]

-----------------------------------------------------------------------------
(* The inputs                                                              *)

NoInput == [ok |-> FALSE, idx |-> <<>>]

IdxValues == (-(MaxIdx + 1))..MaxIdx

\* The typed lists: (), (v,) and (0, v)
IdxLists == {<<>>} \cup {<<v>> : v \in IdxValues} \cup {<<0, v>> : v \in IdxValues}

AllIdxInputs == {NoInput} \cup {[ok |-> TRUE, idx |-> q] : q \in IdxLists}

FewIdxInputs == {NoInput, [ok |-> TRUE, idx |-> <<0>>]}

SomeIdxInputs == FewIdxInputs \cup {[ok |-> TRUE, idx |-> <<0, 99>>]}

Shifts == {k * TickMs : k \in (-MaxShiftTicks)..MaxShiftTicks}

Sub(start, text) == [start |-> start, end |-> start + TickMs, text |-> text]

SrtFile(subs) == [srt |-> TRUE, parses |-> TRUE, subs |-> subs]

EngName == <<"A", "B", "C", "D">>
KorName == <<"ga", "na", "da", "ra">>

StartSeqs == UNION {[1..n -> 0..MaxTick] : n \in 1..MaxLen}

\* Generated English files: any start times, in any order; the first line may
\* have no text.
GenEngFiles ==
    {SrtFile([i \in DOMAIN st |->
                Sub(st[i] * TickMs, IF blank /\ i = 1 THEN "" ELSE EngName[i])]) :
        st \in StartSeqs, blank \in BOOLEAN}

GenKorFiles ==
    {SrtFile([i \in DOMAIN st |-> Sub(st[i] * TickMs, KorName[i])]) : st \in StartSeqs}

E1 == SrtFile(<<Sub(0, "A"), Sub(2 * TickMs, "B")>>)
K1 == SrtFile(<<Sub(0, "ga"), Sub(2 * TickMs, "na")>>)
K2 == SrtFile(<<Sub(6 * TickMs, "ra"), Sub(0, "da")>>)
K0 == SrtFile(<<Sub(TickMs, "ga")>>)
Bilingual == SrtFile(<<Sub(TickMs, "B\nC"), Sub(TickMs, "ga"), Sub(3 * TickMs, "A ga")>>)
NotSrt == [srt |-> FALSE, parses |-> TRUE, subs |-> <<Sub(0, "A")>>]
Garbled == [srt |-> TRUE, parses |-> FALSE, subs |-> <<>>]

-----------------------------------------------------------------------------------------------------------------------------------------------------
(* The script                                                              *)

\* What a run did: the button that started it ("none" for an upload or the
\* preview, which only reload the tracks and draw the page), the errors it
\* showed or died of, and the inputs, locals and table of the button's block.
BlankOut ==
    [op |-> "none", errs |-> {}, shift |-> 0, eng_in |-> NoInput, kor_in |-> NoInput,
     table |-> <<>>, e2 |-> <<>>, k2 |-> <<>>, ri |-> <<>>, download |-> None]

InitWith(U, EF, KF, IX) ==
    /\ users = U
    /\ engFiles = EF
    /\ korFiles = KF
    /\ idxInputs = IX
    /\ eng_file = [s \in Sessions |-> None]
    /\ kor_file = [s \in Sessions |-> None]
    /\ eng_df = [s \in Sessions |-> None]
    /\ kor_df = [s \in Sessions |-> None]
    /\ kor_shifted = [s \in Sessions |-> None]
    /\ matched = [s \in Sessions |-> None]
    /\ buttons = [s \in Sessions |-> {}]
    /\ out = [s \in Sessions |-> BlankOut]
    /\ actor = 0
    /\ csv = None

\* One session, one generated file per uploader
Init ==
    \E ef \in GenEngFiles, kf \in GenKorFiles :
        InitWith({1}, {ef}, {kf}, FewIdxInputs)

\* One session with good, bilingual and bad files
InitSession ==
    InitWith({1}, {E1, Bilingual, K1, NotSrt, Garbled}, {K1, K2, Bilingual, NotSrt},
             SomeIdxInputs)

\* One session, every index input
InitManual == InitWith({1}, {E1}, {K0}, AllIdxInputs)

\* Two sessions of one server
InitMulti == InitWith(Sessions, {E1}, {K1}, {NoInput})

\* Variant: the English track is stored as soon as it is parsed
StoppedStoringEng(s, ef, kf, ld) ==
    /\ eng_file' = [eng_file EXCEPT ![s] = ef]
    /\ kor_file' = [kor_file EXCEPT ![s] = kf]
    /\ buttons' = [buttons EXCEPT ![s] = {}]
    /\ out' = [out EXCEPT ![s] = [BlankOut EXCEPT !.errs = ld.errs]]
    /\ actor' = s
    /\ eng_df' = [eng_df EXCEPT ![s] =
                     IF ef # None /\ parse_srt_to_df(ef[1], "en").df \notin {None, Some(<<>>)}
                     THEN Some(ToTimedeltas(parse_srt_to_df(ef[1], "en").df[1]))
                     ELSE @]
    /\ UNCHANGED <<users, engFiles, korFiles, idxInputs, kor_df,
                   kor_shifted, matched, csv>>

\* The run ends before line 77: no files, st.stop() or an uncaught KeyError.
Stopped(s, ef, kf, ld) ==
    /\ eng_file' = [eng_file EXCEPT ![s] = ef]
    /\ kor_file' = [kor_file EXCEPT ![s] = kf]
    /\ buttons' = [buttons EXCEPT ![s] = {}]
    /\ out' = [out EXCEPT ![s] = [BlankOut EXCEPT !.errs = ld.errs]]
    /\ actor' = s
    /\ UNCHANGED <<users, engFiles, korFiles, idxInputs, eng_df, kor_df,
                   kor_shifted, matched, csv>>

\* The run stores the tracks (lines 74-75); sh, m, c are kor_shifted, matched
\* and the file after the block of the clicked button; then lines 182-199.
Completed(s, ef, kf, ld, sh, m, c, del, o) ==
    LET s9 == Section9(m, c, del)
    IN  /\ eng_file' = [eng_file EXCEPT ![s] = ef]
        /\ kor_file' = [kor_file EXCEPT ![s] = kf]
        /\ eng_df' = [eng_df EXCEPT ![s] = Some(ld.eng)]
        /\ kor_df' = [kor_df EXCEPT ![s] = Some(ld.kor)]
        /\ kor_shifted' = [kor_shifted EXCEPT ![s] = sh]
        /\ matched' = [matched EXCEPT ![s] = s9.matched]
        /\ csv' = s9.csv
        /\ buttons' = [buttons EXCEPT ![s] =
                          {"top15", "manual", "shift"}
                          \cup (IF sh # None THEN {"match"} ELSE {})
                          \cup (IF s9.rendered THEN {"delete"} ELSE {})]
        /\ out' = [out EXCEPT ![s] = [o EXCEPT !.errs = @ \cup s9.errs,
                                               !.download = s9.download]]
        /\ actor' = s
        /\ UNCHANGED <<users, engFiles, korFiles, idxInputs>>

\* A run that executes no block before line 182
Plain(s, ef, kf, del) ==
    LET ld == Load(ef, kf)
    IN  IF ld.ok
        THEN Completed(s, ef, kf, ld, kor_shifted[s], matched[s], csv, del,
                       [BlankOut EXCEPT !.op = IF del THEN "delete" ELSE "none"])
        ELSE Stopped(s, ef, kf, ld)

\* The user puts a file into the English uploader, or removes the file
UploadEng(s) ==
    /\ s \in users
    /\ \E f \in {None} \cup {Some(x) : x \in engFiles} : Plain(s, f, kor_file[s], FALSE)

UploadKor(s) ==
    /\ s \in users
    /\ \E f \in {None} \cup {Some(x) : x \in korFiles} : Plain(s, eng_file[s], f, FALSE)

\* "Show top 15 of each", lines 80-92: two tables, no effect on the session
ShowTop15(s) ==
    /\ s \in users
    /\ "top15" \in buttons[s]
    /\ Plain(s, eng_file[s], kor_file[s], FALSE)

\* "Show manual match", lines 98-116
ShowManualMatch(s) ==
    /\ s \in users
    /\ "manual" \in buttons[s]
    /\ LET ld == Load(eng_file[s], kor_file[s])
       IN  IF ld.ok
           THEN \E eng_in \in idxInputs, kor_in \in idxInputs :
                    LET r == ManualMatch(ld.eng, ld.kor, eng_in, kor_in)
                    IN  Completed(s, eng_file[s], kor_file[s], ld, kor_shifted[s],
                                  matched[s], csv, FALSE,
                                  [BlankOut EXCEPT !.op = "manual",
                                                   !.eng_in = eng_in, !.kor_in = kor_in,
                                                   !.errs = IF r.ok THEN {} ELSE {"index"},
                                                   !.table = r.table])
           ELSE Stopped(s, eng_file[s], kor_file[s], ld)

\* "Apply shift", lines 119-131
ApplyShift(s) ==
    /\ s \in users
    /\ "shift" \in buttons[s]
    /\ LET ld == Load(eng_file[s], kor_file[s])
       IN  IF ld.ok
           THEN \E shift_sec \in Shifts :
                    /\ -ShiftMax <= shift_sec /\ shift_sec <= ShiftMax
                    /\ Completed(s, eng_file[s], kor_file[s], ld,
                                 Some(ShiftTrack(ld.kor, shift_sec)), matched[s], csv,
                                 FALSE,
                                 [BlankOut EXCEPT !.op = "shift", !.shift = shift_sec])
           ELSE Stopped(s, eng_file[s], kor_file[s], ld)

\* "Run automatic matching", lines 135-180
RunMatching(s) ==
    /\ s \in users
    /\ "match" \in buttons[s]
    /\ LET ld == Load(eng_file[s], kor_file[s])
       IN  IF ld.ok /\ kor_shifted[s] # None
           THEN \E e2 \in SortedByStart(ld.eng), k2 \in SortedByStart(kor_shifted[s][1]) :
                    LET ri == MergeAsof(e2, k2)
                        final == Final(e2, k2, ri)
                    IN  Completed(s, eng_file[s], kor_file[s], ld, kor_shifted[s],
                                  Some(final), Some(to_csv(final)), FALSE,
                                  [BlankOut EXCEPT !.op = "match", !.e2 = e2,
                                                   !.k2 = k2, !.ri = ri])
           ELSE Plain(s, eng_file[s], kor_file[s], FALSE)

\* "Not good (delete file)", lines 193-199
Delete(s) ==
    /\ s \in users
    /\ "delete" \in buttons[s]
    /\ Plain(s, eng_file[s], kor_file[s], TRUE)

Next ==
    \E s \in Sessions :
        \/ UploadEng(s)
        \/ UploadKor(s)
        \/ ShowTop15(s)
        \/ ShowManualMatch(s)
        \/ ApplyShift(s)
        \/ RunMatching(s)
        \/ Delete(s)

Spec == Init /\ [][Next]_vars
SpecSession == InitSession /\ [][Next]_vars
SpecManual == InitManual /\ [][Next]_vars
SpecMulti == InitMulti /\ [][Next]_vars

-----------------------------------------------------------------------------
(* Properties                                                              *)

\* The locals of a run of the automatic matching
Dist(e2, k2, i, j) == Abs(k2[j].start_time - e2[i].start_time)

MatchRuns == {s \in users : out[s].op = "match"}

\* The comparison rows selected by at least one match
Selected(ri) == {ri[i] : i \in DOMAIN ri} \ {0}

\* C1: every reference segment is paired with a comparison segment exactly when
\* the closest comparison start is within the tolerance; the segment paired is
\* then within the tolerance and no comparison segment is closer; otherwise the
\* row's comparison side is empty.
C1_NearestWithinTolerance ==
    \A s \in MatchRuns :
        LET e2 == out[s].e2
            k2 == out[s].k2
            ri == out[s].ri
            rows == matched[s][1]
        IN  \A i \in 1..Len(e2) :
                /\ rows[i].Eng_text = e2[i].text
                /\ IF \E j \in 1..Len(k2) : Dist(e2, k2, i, j) <= Tolerance
                   THEN /\ ri[i] \in 1..Len(k2)
                        /\ Dist(e2, k2, i, ri[i]) <= Tolerance
                        /\ \A c \in 1..Len(k2) : Dist(e2, k2, i, c) >= Dist(e2, k2, i, ri[i])
                        /\ rows[i].Kor_text = k2[ri[i]].text
                   ELSE /\ ri[i] = 0
                        /\ rows[i].Kor_text = NaN

\* A run that pairs one reference segment and leaves another without a pair
C1_Witness ==
    \E s \in MatchRuns :
        /\ \E i \in DOMAIN out[s].ri : out[s].ri[i] # 0 /\ Len(out[s].k2) >= 2
        /\ \E i \in DOMAIN out[s].ri : out[s].ri[i] = 0

\* C2 as claimed: of two comparison segments at equal distance from a reference
\* start, whether one earlier and one later or two of the same start time, the
\* earlier-indexed one is selected.
C2_TieEarlierIndexed ==
    \A s \in MatchRuns :
        LET e2 == out[s].e2
            k2 == out[s].k2
            ri == out[s].ri
        IN  \A i \in 1..Len(e2) : \A j \in 1..Len(k2) :
                (ri[i] # 0 /\ Dist(e2, k2, i, j) = Dist(e2, k2, i, ri[i])) => ri[i] <= j

\* C2 as amended: of an earlier and a later comparison start at equal distance
\* the earlier is selected; of the comparison segments sharing the selected
\* start time the last-indexed is selected when that time is at or before the
\* reference start, the first-indexed when it is after it.
C2_TieBreak ==
    \A s \in MatchRuns :
        LET e2 == out[s].e2
            k2 == out[s].k2
            ri == out[s].ri
        IN  \A i \in 1..Len(e2) : \A j \in 1..Len(k2) :
                ri[i] # 0 =>
                    LET m == ri[i]
                    IN  /\ (/\ Dist(e2, k2, i, j) = Dist(e2, k2, i, m)
                            /\ k2[j].start_time # k2[m].start_time)
                           => (k2[m].start_time < k2[j].start_time /\ m < j)
                        /\ (/\ k2[j].start_time = k2[m].start_time
                            /\ k2[m].start_time <= e2[i].start_time) => j <= m
                        /\ (/\ k2[j].start_time = k2[m].start_time
                            /\ k2[m].start_time > e2[i].start_time) => m <= j

\* A reference start halfway between two comparison starts
C2_Witness ==
    \E s \in MatchRuns :
        \E i \in DOMAIN out[s].ri : \E j \in 1..Len(out[s].k2) :
            /\ out[s].ri[i] # 0
            /\ Dist(out[s].e2, out[s].k2, i, j) = Dist(out[s].e2, out[s].k2, i, out[s].ri[i])
            /\ out[s].k2[j].start_time # out[s].k2[out[s].ri[i]].start_time

\* C3 as claimed: the output has one row per reference segment, followed by one
\* row per comparison segment that no reference segment selected.
C3_OutputLength ==
    \A s \in MatchRuns :
        LET k2 == out[s].k2
            ri == out[s].ri
        IN  /\ Len(out[s].e2) = Len(eng_df[s][1])
            /\ Len(ri) = Len(eng_df[s][1])
            /\ Len(matched[s][1]) =
                   Len(eng_df[s][1]) + Cardinality((1..Len(k2)) \ Selected(ri))

\* The indices of k2, ascending, whose start time no match selected
UnselectedTimes(k2, ri) ==
    LET times == {k2[j].start_time : j \in Selected(ri)}
    IN  SelectSeq([j \in 1..Len(k2) |-> j], LAMBDA j : k2[j].start_time \notin times)

\* C4 as claimed: every row with an empty reference text comes after every row
\* of a reference segment; the unmatched records are in the comparison track's
\* ascending order, one for each comparison segment whose start time no match
\* selected.
C4_EmptyReferenceTextLast ==
    \A s \in MatchRuns :
        LET e2 == out[s].e2
            k2 == out[s].k2
            rows == matched[s][1]
            u == UnselectedTimes(k2, out[s].ri)
        IN  /\ \A i \in 1..Len(rows) : rows[i].Eng_text = "" => i > Len(e2)
            /\ Len(rows) = Len(e2) + Len(u)
            /\ \A m \in 1..Len(u) : rows[Len(e2) + m].Kor_text = k2[u[m]].text

\* C4 as amended: the rows of the reference segments come first, in start
\* order, whatever their text; the unmatched records follow, each with an
\* empty reference text, in the comparison track's ascending order, one for
\* each comparison segment whose start time no match selected.
C4_UnmatchedAppended ==
    \A s \in MatchRuns :
        LET e2 == out[s].e2
            k2 == out[s].k2
            rows == matched[s][1]
            u == UnselectedTimes(k2, out[s].ri)
        IN  /\ Len(rows) = Len(e2) + Len(u)
            /\ \A i \in 1..Len(e2) : rows[i].Eng_text = e2[i].text
            /\ \A m \in 1..Len(u) :
                   rows[Len(e2) + m] = [Eng_text |-> "", Kor_text |-> k2[u[m]].text]
            /\ \A m \in 1..(Len(u) - 1) : k2[u[m]].start_time <= k2[u[m + 1]].start_time

\* A run with a reference segment of empty text and two unmatched records
C4_Witness ==
    \E s \in MatchRuns :
        /\ \E i \in 1..Len(out[s].e2) : out[s].e2[i].text = ""
        /\ Len(matched[s][1]) >= Len(out[s].e2) + 2

\* The track a shift by x derives from a loaded comparison track
ShiftedBy(kdf, x) ==
    [i \in 1..Len(kdf) |->
        [start_time |-> kdf[i].start_time - x, end_time |-> kdf[i].end_time,
         text |-> kdf[i].text]]

\* C5: a run of "Apply shift" leaves the loaded comparison track as it was and
\* caches that track with every start lowered by this run's offset alone and
\* every end unchanged, whatever was shifted before.
C5_ShiftFromOriginal ==
    [][\A s \in users :
          (actor' = s /\ out'[s].op = "shift") =>
              /\ kor_df[s] # None
              /\ kor_df'[s] = kor_df[s]
              /\ -ShiftMax <= out'[s].shift /\ out'[s].shift <= ShiftMax
              /\ kor_shifted'[s] = Some(ShiftedBy(kor_df[s][1], out'[s].shift))]_vars

\* A shift by a non-zero offset after an earlier shift and a match
C5_Witness ==
    \E s \in users :
        /\ out[s].op = "shift" /\ out[s].shift # 0
        /\ matched[s] # None
        /\ kor_shifted[s] # kor_df[s]

\* What a run of "Show manual match" shows, given the bounds of an index
ManualShows(o, edf, kdf, Valid(_, _)) ==
    LET bad == \/ ~ o.eng_in.ok \/ ~ o.kor_in.ok
               \/ \E j \in 1..Len(o.eng_in.idx) : ~ Valid(Len(edf), o.eng_in.idx[j])
               \/ \E j \in 1..Len(o.kor_in.idx) : ~ Valid(Len(kdf), o.kor_in.idx[j])
    IN  IF bad THEN "index" \in o.errs /\ o.table = <<>>
        ELSE /\ o.errs = {}
             /\ Len(o.table) = Min(Len(o.eng_in.idx), Len(o.kor_in.idx))

ZeroToN(n, i) == 0 <= i /\ i <= n - 1

PythonBounds(n, i) == -n <= i /\ i <= n - 1

\* C6 as claimed: the manual pairing fails with an index error and no pairs
\* whenever an index of either list is not one of 0..n-1, negative indices
\* and the indices zip would drop included; the tracks are as before.
C6_FailsOutsideZeroToN ==
    [][\A s \in users :
          (actor' = s /\ out'[s].op = "manual") =>
              /\ ManualShows(out'[s], eng_df'[s][1], kor_df'[s][1], ZeroToN)
              /\ eng_df'[s] = eng_df[s] /\ kor_df'[s] = kor_df[s]]_vars

\* C6 as amended: the manual pairing fails with an index error and no pairs
\* exactly when an input is malformed or an index of either list, the indices
\* zip would drop included, is outside -n..n-1; an index -n..-1 counts from the
\* end of its track; the tracks are as before.
C6_FailsOutsidePythonBounds ==
    [][\A s \in users :
          (actor' = s /\ out'[s].op = "manual") =>
              /\ ManualShows(out'[s], eng_df'[s][1], kor_df'[s][1], PythonBounds)
              /\ \A j \in 1..Len(out'[s].table) :
                    LET e == out'[s].eng_in.idx[j]
                        k == out'[s].kor_in.idx[j]
                        edf == eng_df[s][1]
                        kdf == kor_df[s][1]
                        er == edf[IF e < 0 THEN Len(edf) + e + 1 ELSE e + 1]
                        kr == kdf[IF k < 0 THEN Len(kdf) + k + 1 ELSE k + 1]
                    IN  /\ out'[s].table[j].ENG_text = er.text
                        /\ out'[s].table[j].KOR_text = kr.text
                        /\ out'[s].table[j].interval = kr.start_time - er.start_time
              /\ eng_df'[s] = eng_df[s] /\ kor_df'[s] = kor_df[s]]_vars

\* A pair built from a negative index
C6_Witness ==
    \E s \in users :
        /\ out[s].op = "manual" /\ out[s].errs = {} /\ out[s].table # <<>>
        /\ \E j \in 1..Len(out[s].table) : out[s].eng_in.idx[j] < 0

\* C7 as claimed: a delete after a match succeeds, a second delete is a no-op,
\* and no run fails because the persisted file is absent.
C7_DeleteIdempotent ==
    [][\A s \in users :
          /\ "FileNotFoundError" \notin out'[s].errs
          /\ (actor' = s /\ out'[s].op = "delete") =>
                /\ out'[s].errs = {}
                /\ matched'[s] = None
                /\ matched[s] = None => csv' = csv]_vars

FailureKinds == {"format", "validation", "index"}

\* C8: a run that shows a format, validation or index error leaves the
\* session's tracks, shifted track and match result as they were.
C8_FailureKeepsSession ==
    [][\A s \in users :
          (actor' = s /\ out'[s].errs \cap FailureKinds # {}) =>
              /\ eng_df'[s] = eng_df[s]
              /\ kor_df'[s] = kor_df[s]
              /\ kor_shifted'[s] = kor_shifted[s]
              /\ matched'[s] = matched[s]]_vars

\* A rejected upload in a session that holds tracks, a shift and a match
C8_Witness ==
    \E s \in users :
        /\ out[s].errs \cap {"format", "validation"} # {}
        /\ eng_df[s] # None /\ kor_shifted[s] # None /\ matched[s] # None

\* C9 as claimed: the cached shifted track is a shift of the loaded comparison
\* track, and the cached match result a match of the loaded tracks.
C9_DerivedStateFresh ==
    \A s \in users :
        /\ kor_shifted[s] # None =>
              \E x \in Shifts : kor_shifted[s] = Some(ShiftedBy(kor_df[s][1], x))
        /\ matched[s] # None =>
              \E x \in Shifts :
                  \E e2 \in SortedByStart(eng_df[s][1]),
                     k2 \in SortedByStart(ShiftedBy(kor_df[s][1], x)) :
                      matched[s] = Some(Final(e2, k2, MergeAsof(e2, k2)))

\* C10 as claimed: whatever the other sessions do, a run of a session that
\* holds a match result finds the persisted file, and the download it offers
\* is that session's own match result.
C10_SessionOwnsResult ==
    \A s \in users :
        /\ "FileNotFoundError" \notin out[s].errs
        /\ (matched[s] # None /\ out[s].download # None)
               => out[s].download = Some(to_csv(matched[s][1]))

====
